---- MODULE Spec2Model ----
(***************************************************************************)
(* Model of the test-file-structure linter CLI (src/src/analyzer.ts,       *)
(* src/src/fixer.ts, src/src/json-reporter.ts and the command action of    *)
(* the CLI entry point) and of the message handling of its VS Code         *)
(* extension.                                                              *)
(*                                                                         *)
(* A file name or directory name is a sequence of one-character strings,   *)
(* a path is a sequence of such names starting with the root directory.    *)
(* The path separator never occurs inside a name, so two path strings are  *)
(* equal exactly when their sequences of names are equal.                  *)
(***************************************************************************)
EXTENDS Integers, Sequences, FiniteSets, TLC

(***************************************************************************)
(* Bounds of the model.                                                    *)
(***************************************************************************)
MaxSourceFiles == 2
MaxTestFiles == 2
MaxViewUpdates == 6

(***************************************************************************)
(* String primitives of JavaScript, on sequences of characters.            *)
(***************************************************************************)
Last(s) == s[Len(s)]

Front(s) == SubSeq(s, 1, Len(s) - 1)

\* String.prototype.toLowerCase, one character.
LowerChar(c) ==
  CASE c = "A" -> "a"
    [] c = "B" -> "b"
    [] c = "T" -> "t"
    [] c = "X" -> "x"
    [] c = "Y" -> "y"
    [] c = "Z" -> "z"
    [] OTHER -> c

\* String.prototype.toLowerCase
ToLowerCase(s) == [i \in 1..Len(s) |-> LowerChar(s[i])]

\* String.prototype.endsWith
EndsWith(s, suffix) ==
  /\ Len(suffix) <= Len(s)
  /\ SubSeq(s, Len(s) - Len(suffix) + 1, Len(s)) = suffix

\* String.prototype.startsWith
StartsWith(s, prefix) ==
  /\ Len(prefix) <= Len(s)
  /\ SubSeq(s, 1, Len(prefix)) = prefix

\* The positions at which pattern occurs in s (String.prototype.indexOf is
\* the least of them).
Occurrences(s, pattern) ==
  {i \in 1..(Len(s) - Len(pattern) + 1) : SubSeq(s, i, i + Len(pattern) - 1) = pattern}

\* String.prototype.replace(pattern, '') with a string pattern: only the
\* first occurrence is removed.
ReplaceFirst(s, pattern) ==
  IF pattern = <<>> \/ Occurrences(s, pattern) = {}
  THEN s
  ELSE LET i == CHOOSE k \in Occurrences(s, pattern) :
                  \A m \in Occurrences(s, pattern) : k <= m
       IN SubSeq(s, 1, i - 1) \o SubSeq(s, i + Len(pattern), Len(s))

\* One pattern character of a regular expression against one character:
\* '.' matches any character, a letter matches itself.
RegExpCharMatches(p, c) == p = "." \/ p = c

\* The pattern text of new RegExp, read as a list of terms: a character
\* ('.' or a literal) with or without the quantifier '+' behind it.  These
\* are the pattern characters the model knows.
RECURSIVE RegExpTerms(_)
RegExpTerms(pattern) ==
  IF pattern = <<>> THEN <<>>
  ELSE IF Len(pattern) >= 2 /\ pattern[2] = "+"
  THEN <<[atom |-> pattern[1], plus |-> TRUE]>> \o RegExpTerms(SubSeq(pattern, 3, Len(pattern)))
  ELSE <<[atom |-> pattern[1], plus |-> FALSE]>> \o RegExpTerms(Tail(pattern))

\* new RegExp(pattern) throws SyntaxError ("Nothing to repeat") when a '+'
\* stands first or behind another quantifier.
IsValidRegExp(pattern) ==
  \A k \in 1..Len(RegExpTerms(pattern)) : RegExpTerms(pattern)[k].atom # "+"

\* The terms match the whole of s.
RECURSIVE RegExpMatches(_, _)
RegExpMatches(terms, s) ==
  IF terms = <<>> THEN s = <<>>
  ELSE /\ s # <<>>
       /\ RegExpCharMatches(Head(terms).atom, Head(s))
       /\ \/ RegExpMatches(Tail(terms), Tail(s))
          \/ Head(terms).plus /\ RegExpMatches(terms, Tail(s))

\* s.replace(new RegExp(`${suffix}$`), ''), for a valid pattern: the match
\* is the one that starts leftmost among those that reach the end of s.
ReplaceSuffixRegExp(s, suffix) ==
  LET starts == {i \in 1..(Len(s) + 1) :
                   RegExpMatches(RegExpTerms(suffix), SubSeq(s, i, Len(s)))}
  IN IF starts = {} THEN s
     ELSE SubSeq(s, 1, (CHOOSE i \in starts : \A m \in starts : i <= m) - 1)

(***************************************************************************)
(* node:path on names and paths.                                           *)
(***************************************************************************)
\* path.extname of a file name: from the last '.', unless there is none or
\* it is the first character.
ExtName(name) ==
  LET dots == {i \in 1..Len(name) : name[i] = "."}
  IN IF dots = {} THEN <<>>
     ELSE LET i == CHOOSE k \in dots : \A m \in dots : m <= k
          IN IF i = 1 THEN <<>> ELSE SubSeq(name, i, Len(name))

\* path.basename(p, ext) of the file name of p.
BaseName(name, ext) ==
  IF ext # <<>> /\ Len(ext) < Len(name) /\ EndsWith(name, ext)
  THEN SubSeq(name, 1, Len(name) - Len(ext))
  ELSE name

\* path.dirname of an absolute path.
DirName(p) == Front(p)

\* path.relative(root, p) for a path p below root.
Relative(root, p) == SubSeq(p, Len(root) + 1, Len(p))

\* path.dirname(relative).split(/[/\\]/): the directory names of a relative
\* path; the directory of a bare file name is '.'.
DirSegments(rel) == IF Len(rel) = 1 THEN << <<".">> >> ELSE Front(rel)

(***************************************************************************)
(* Analyzer: the error and result records.  An absent optional field is    *)
(* the empty sequence, which is what the fixer's truthiness tests take for *)
(* absent.  sourceFilePath is the list of the source paths that the code   *)
(* joins with ', ' (one path when the source file is resolved).            *)
(***************************************************************************)
InvalidFileName == "InvalidFileName"
InvalidDirectoryStructure == "InvalidDirectoryStructure"
MissingTest == "MissingTest"

Message(text, name, path, count) ==
  [text |-> text, name |-> name, path |-> path, count |-> count]

AnalysisError(type, message, source, actual, expected) ==
  [type |-> type, message |-> message, sourceFilePath |-> source,
   actualTestPath |-> actual, expectedTestPath |-> expected]

AnalysisResult(testFilePath, errors) ==
  [testFile |-> Last(testFilePath), testFilePath |-> testFilePath, errors |-> errors]

\* Analyzer.calculateExpectedTestPath
CalculateExpectedTestPath(sourceFilePath, options) ==
  LET sourceSegments == Relative(options.srcRoot, sourceFilePath)
      projectName == sourceSegments[1]
      testProjectName == projectName \o options.testProjectSuffix
      remainingPath == SubSeq(sourceSegments, 2, Len(sourceSegments) - 1)
      sourceFileName == Last(sourceFilePath)
      testFileName == ReplaceFirst(sourceFileName, ExtName(sourceFileName))
                        \o options.testFileSuffix \o ExtName(sourceFileName)
  IN options.testRoot \o <<testProjectName>> \o remainingPath \o <<testFileName>>

\* Variant of FindMatchingSourceFiles that compares the base names exactly.
FindMatchingSourceFilesCaseSensitive(sourceFiles, baseName, extension) ==
  SelectSeq(sourceFiles, LAMBDA file : BaseName(Last(file), extension) = baseName)

\* Analyzer.findMatchingSourceFiles
FindMatchingSourceFiles(sourceFiles, baseName, extension) ==
  SelectSeq(sourceFiles,
            LAMBDA file : ToLowerCase(BaseName(Last(file), extension)) = ToLowerCase(baseName))

\* The predicate of matchingSourceFiles.find in analyzeProject: the source
\* project is the test project with the first occurrence of the project
\* suffix removed, and the directories below the project are the same.
IsMatchingByDir(file, testFile, options) ==
  LET testDirSegments == DirSegments(Relative(options.testRoot, testFile))
      sourceDirSegments == DirSegments(Relative(options.srcRoot, file))
  IN /\ sourceDirSegments[1] = ReplaceFirst(testDirSegments[1], options.testProjectSuffix)
     /\ Tail(sourceDirSegments) = Tail(testDirSegments)

\* matchingSourceFiles.find(...): the first match, or nothing.
MatchingSourceByDir(matchingSourceFiles, testFile, options) ==
  LET found == SelectSeq(matchingSourceFiles,
                         LAMBDA file : IsMatchingByDir(file, testFile, options))
  IN IF found = <<>> THEN <<>> ELSE <<found[1]>>

\* Variant of ResolvedByDirErrors that reports every difference as a wrong
\* directory.
ResolvedByDirErrorsDirectoryOnly(testFile, matchingSourceByDir, options) ==
  LET expectedTestPath == CalculateExpectedTestPath(matchingSourceByDir, options)
  IN IF testFile # expectedTestPath
     THEN <<AnalysisError(InvalidDirectoryStructure,
              Message("Test file is in wrong directory", <<>>, <<>>, 0),
              <<matchingSourceByDir>>, testFile, expectedTestPath)>>
     ELSE <<>>

\* analyzeProject, the branch of a source file resolved by its directory.
ResolvedByDirErrors(testFile, matchingSourceByDir, options) ==
  LET expectedTestPath == CalculateExpectedTestPath(matchingSourceByDir, options)
  IN IF testFile # expectedTestPath
     THEN IF DirName(testFile) = DirName(expectedTestPath)
          THEN <<AnalysisError(InvalidFileName,
                   Message("Test file has incorrect name. Expected: ",
                           Last(expectedTestPath), <<>>, 0),
                   <<matchingSourceByDir>>, testFile, expectedTestPath)>>
          ELSE <<AnalysisError(InvalidDirectoryStructure,
                   Message("Test file is in wrong directory", <<>>, <<>>, 0),
                   <<matchingSourceByDir>>, testFile, expectedTestPath)>>
     ELSE <<>>

\* Variant of MultipleMatchErrors that fills expectedTestPath in (with the
\* test file's own path).
MultipleMatchErrorsWithExpectedPath(testFile, matchingSourceFiles) ==
  <<AnalysisError(InvalidDirectoryStructure,
      Message("Multiple matching source files found (). Unable to determine correct source file",
              <<>>, <<>>, Len(matchingSourceFiles)),
      matchingSourceFiles, testFile, testFile)>>

\* analyzeProject, the branch of several candidates none of which is
\* resolved.
MultipleMatchErrors(testFile, matchingSourceFiles) ==
  <<AnalysisError(InvalidDirectoryStructure,
      Message("Multiple matching source files found (). Unable to determine correct source file",
              <<>>, <<>>, Len(matchingSourceFiles)),
      matchingSourceFiles, testFile, <<>>)>>

\* Variant of SingleMatchErrors that compares the paths ignoring letter
\* case, so that a case-only difference goes unreported.
SingleMatchErrorsIgnoringCase(testFile, sourcePath, options) ==
  LET expectedTestPath == CalculateExpectedTestPath(sourcePath, options)
      lower(p) == [i \in 1..Len(p) |-> ToLowerCase(p[i])]
  IN IF lower(testFile) # lower(expectedTestPath)
     THEN IF DirName(testFile) = DirName(expectedTestPath)
          THEN <<AnalysisError(InvalidFileName,
                   Message("Test file has incorrect name. Expected: ",
                           Last(expectedTestPath), <<>>, 0),
                   <<sourcePath>>, testFile, expectedTestPath)>>
          ELSE <<AnalysisError(InvalidDirectoryStructure,
                   Message("Test file is in wrong directory", <<>>, <<>>, 0),
                   <<sourcePath>>, testFile, expectedTestPath)>>
     ELSE <<>>

\* analyzeProject, the branch of exactly one matching source file.
SingleMatchErrors(testFile, sourcePath, options) ==
  LET expectedTestPath == CalculateExpectedTestPath(sourcePath, options)
  IN IF testFile # expectedTestPath
     THEN IF DirName(testFile) = DirName(expectedTestPath)
          THEN <<AnalysisError(InvalidFileName,
                   Message("Test file has incorrect name. Expected: ",
                           Last(expectedTestPath), <<>>, 0),
                   <<sourcePath>>, testFile, expectedTestPath)>>
          ELSE <<AnalysisError(InvalidDirectoryStructure,
                   Message("Test file is in wrong directory", <<>>, <<>>, 0),
                   <<sourcePath>>, testFile, expectedTestPath)>>
     ELSE <<>>

\* Variant of NoMatchErrors whose message leaves the file extension out.
NoMatchErrorsWithoutExtension(testFile, sourceFileName, options) ==
  <<AnalysisError(InvalidDirectoryStructure,
      Message("Source file not found: ", sourceFileName, <<>>, 0),
      <<>>, testFile, <<>>)>>

\* analyzeProject, the branch of no matching source file.
NoMatchErrors(testFile, sourceFileName, options) ==
  <<AnalysisError(InvalidDirectoryStructure,
      Message("Source file not found: ", sourceFileName \o options.fileExtension, <<>>, 0),
      <<>>, testFile, <<>>)>>

\* The source base name analyzeProject infers from a test file.
InferredSourceName(testFile, options) ==
  ReplaceSuffixRegExp(BaseName(Last(testFile), options.fileExtension),
                      options.testFileSuffix)

\* analyzeProject, the body of the loop over the test files: the errors of
\* one test file.
TestFileErrors(testFile, sourceFiles, options) ==
  LET sourceFileName == InferredSourceName(testFile, options)
      matchingSourceFiles ==
        FindMatchingSourceFiles(sourceFiles, sourceFileName, options.fileExtension)
  IN IF Len(matchingSourceFiles) = 0
     THEN NoMatchErrors(testFile, sourceFileName, options)
     ELSE IF Len(matchingSourceFiles) > 1
     THEN LET byDir == MatchingSourceByDir(matchingSourceFiles, testFile, options)
          IN IF byDir # <<>>
             THEN ResolvedByDirErrors(testFile, byDir[1], options)
             ELSE MultipleMatchErrors(testFile, matchingSourceFiles)
     ELSE SingleMatchErrors(testFile, matchingSourceFiles[1], options)

\* Variant of TestFileResults that pushes the result of every test file,
\* with or without errors.
RECURSIVE TestFileResultsUnconditional(_, _, _)
TestFileResultsUnconditional(testFiles, sourceFiles, options) ==
  IF testFiles = <<>> THEN <<>>
  ELSE <<AnalysisResult(Head(testFiles),
                        TestFileErrors(Head(testFiles), sourceFiles, options))>>
         \o TestFileResultsUnconditional(Tail(testFiles), sourceFiles, options)

\* analyzeProject, the loop over the test files: a result is pushed only
\* when it has errors.
RECURSIVE TestFileResults(_, _, _)
TestFileResults(testFiles, sourceFiles, options) ==
  IF testFiles = <<>> THEN <<>>
  ELSE LET errors == TestFileErrors(Head(testFiles), sourceFiles, options)
       IN (IF errors # <<>> THEN <<AnalysisResult(Head(testFiles), errors)>> ELSE <<>>)
            \o TestFileResults(Tail(testFiles), sourceFiles, options)

\* Variant of TestFileMapKeys with lower-cased keys.
TestFileMapKeysIgnoringCase(testFiles, options) ==
  {ToLowerCase(ReplaceSuffixRegExp(BaseName(Last(testFiles[i]), ExtName(Last(testFiles[i]))),
                                   options.testFileSuffix)) : i \in 1..Len(testFiles)}

\* analyzeMissingTests: the keys of testFileMap.
TestFileMapKeys(testFiles, options) ==
  {ReplaceSuffixRegExp(BaseName(Last(testFiles[i]), ExtName(Last(testFiles[i]))),
                       options.testFileSuffix) : i \in 1..Len(testFiles)}

\* Analyzer.analyzeMissingTests
RECURSIVE AnalyzeMissingTests(_, _, _)
AnalyzeMissingTests(sourceFiles, testFiles, options) ==
  IF sourceFiles = <<>> THEN <<>>
  ELSE LET sourceFile == Head(sourceFiles)
           sourceBaseName == BaseName(Last(sourceFile), ExtName(Last(sourceFile)))
           expectedTestPath == CalculateExpectedTestPath(sourceFile, options)
       IN (IF sourceBaseName \notin TestFileMapKeys(testFiles, options)
           THEN <<AnalysisResult(expectedTestPath,
                    <<AnalysisError(MissingTest,
                        Message("Missing test file for source file: ", <<>>, sourceFile, 0),
                        <<>>, <<>>, <<>>)>>)>>
           ELSE <<>>)
            \o AnalyzeMissingTests(Tail(sourceFiles), testFiles, options)

\* analyzeProject: the results before the final filter.
UnfilteredResults(sourceFiles, testFiles, options) ==
  TestFileResults(testFiles, sourceFiles, options)
    \o (IF options.validateMissingTests
        THEN AnalyzeMissingTests(sourceFiles, testFiles, options)
        ELSE <<>>)

\* An ignoreDirectories entry (a run of directory names) occurs in a path
\* as whole names: the string tests includes(sep+dir+sep) and
\* endsWith(sep+dir) of the final filter on an absolute path, and the glob
\* ignore pattern **/dir/** of the enumeration.
ContainsDirectory(p, ignoreDir) ==
  \E i \in 1..(Len(p) - Len(ignoreDir) + 1) :
     SubSeq(p, i, i + Len(ignoreDir) - 1) = ignoreDir

\* Variant of KeptByFinalFilter that looks at ignoreFiles only.
KeptByFinalFilterFilesOnly(result, options) ==
  \A i \in 1..Len(options.ignoreFiles) :
     ToLowerCase(Last(result.testFilePath)) # ToLowerCase(options.ignoreFiles[i])

\* analyzeProject, the predicate of the final filter (TRUE: the result is
\* kept).
KeptByFinalFilter(result, options) ==
  /\ \A i \in 1..Len(options.ignoreDirectories) :
        ~ContainsDirectory(result.testFilePath, options.ignoreDirectories[i])
  /\ \A i \in 1..Len(options.ignoreFiles) :
        ToLowerCase(Last(result.testFilePath)) # ToLowerCase(options.ignoreFiles[i])

\* analyzeProject, the final filter.
FilteredResults(results, options) ==
  SelectSeq(results, LAMBDA result : KeptByFinalFilter(result, options))

(***************************************************************************)
(* Enumeration of the files.  glob 7 returns its matches sorted, so the    *)
(* enumerated list is the sorted list of all paths restricted to the files *)
(* that exist and pass the filters.                                        *)
(***************************************************************************)
\* The literal prefix findTestFiles excludes.
TestsDot == <<"T", "e", "s", "t", "s", ".">>

\* Variant of IsTestFile without the test on the project suffix.
IsTestFileAnyProject(f, dir, extension, testFileSuffix, ignoreDirectories, ignoreFiles, testProjectSuffix) ==
  LET fileName == Last(f)
      pathSegments == Relative(dir, f)
  IN /\ EndsWith(fileName, extension)
     /\ \A i \in 1..Len(ignoreDirectories) : ~ContainsDirectory(f, ignoreDirectories[i])
     /\ EndsWith(BaseName(fileName, extension), testFileSuffix)
     /\ \A i \in 1..Len(ignoreFiles) :
           ToLowerCase(fileName) # ToLowerCase(ignoreFiles[i])
     /\ ~StartsWith(pathSegments[1], TestsDot)

\* findTestFiles, the predicate of the filter (with the glob pattern and its
\* ignore list).
IsTestFile(f, dir, extension, testFileSuffix, ignoreDirectories, ignoreFiles, testProjectSuffix) ==
  LET fileName == Last(f)
      pathSegments == Relative(dir, f)
  IN /\ EndsWith(fileName, extension)
     /\ \A i \in 1..Len(ignoreDirectories) : ~ContainsDirectory(f, ignoreDirectories[i])
     /\ EndsWith(BaseName(fileName, extension), testFileSuffix)
     /\ \A i \in 1..Len(ignoreFiles) :
           ToLowerCase(fileName) # ToLowerCase(ignoreFiles[i])
     /\ EndsWith(pathSegments[1], testProjectSuffix)
     /\ ~StartsWith(pathSegments[1], TestsDot)

\* findSourceFiles, the predicate of the filter (with the glob pattern and
\* its ignore list).
IsSourceFile(f, extension, ignoreDirectories, ignoreFiles) ==
  /\ EndsWith(Last(f), extension)
  /\ \A i \in 1..Len(ignoreDirectories) : ~ContainsDirectory(f, ignoreDirectories[i])
  /\ \A i \in 1..Len(ignoreFiles) :
        ToLowerCase(Last(f)) # ToLowerCase(ignoreFiles[i])

\* Analyzer.findTestFiles over the files existing in the test root; sorted
\* is the sorted list of all paths.
FindTestFiles(existing, sorted, options) ==
  SelectSeq(sorted,
            LAMBDA f : /\ f \in existing
                       /\ IsTestFile(f, options.testRoot, options.fileExtension,
                                     options.testFileSuffix, options.ignoreDirectories,
                                     options.ignoreFiles, options.testProjectSuffix))

\* Analyzer.findSourceFiles over the files existing in the source root.
FindSourceFiles(existing, sorted, options) ==
  SelectSeq(sorted,
            LAMBDA f : /\ f \in existing
                       /\ IsSourceFile(f, options.fileExtension,
                                       options.ignoreDirectories, options.ignoreFiles))

(***************************************************************************)
(* The inputs: names, paths and options.                                   *)
(***************************************************************************)
DotC == <<".", "c">>
SuffixT == <<"T">>
DotT == <<".", "T">>

SrcRoot == << <<"s">> >>
TestRoot == << <<"t">> >>

ProjA == <<"A">>
ProjB == <<"B">>
ProjATB == <<"A", ".", "T", "B">>
ProjTestsA == TestsDot \o <<"A">>
DirD == <<"d">>
DirE == <<"e">>

FileX == <<"x">> \o DotC
FileY == <<"y">> \o DotC
FileXT == <<"x", "T">> \o DotC
FileUpperXT == <<"X", "T">> \o DotC
FileYT == <<"y", "T">> \o DotC
FileZT == <<"z", "T">> \o DotC

\* The source paths the files of Init are drawn from, in the order glob
\* sorts them.
SourceUniverse ==
  << SrcRoot \o <<ProjATB, FileX>>,
     SrcRoot \o <<ProjA, DirD, FileX>>,
     SrcRoot \o <<ProjA, FileX>>,
     SrcRoot \o <<ProjA, FileY>>,
     SrcRoot \o <<ProjB, DirE, FileX>>,
     SrcRoot \o <<ProjTestsA, FileY>> >>

\* The test-root paths the files of Init are drawn from, in the order glob
\* sorts them.
TestUniverse ==
  << TestRoot \o <<ProjA \o DotT, DirD, FileXT>>,
     TestRoot \o <<ProjA \o DotT, DirE, FileXT>>,
     TestRoot \o <<ProjA \o DotT, FileXT>>,
     TestRoot \o <<ProjA \o DotT, FileUpperXT>>,
     TestRoot \o <<ProjA \o DotT, FileYT>>,
     TestRoot \o <<ProjA \o DotT, FileZT>>,
     TestRoot \o <<ProjATB \o DotT, FileXT>>,
     TestRoot \o <<ProjB \o DotT, DirE, FileXT>>,
     TestRoot \o <<ProjB \o DotT, FileYT>>,
     TestRoot \o <<ProjTestsA \o DotT, FileYT>> >>

Range(seq) == {seq[i] : i \in 1..Len(seq)}

\* File names with a second '.c', without the test suffix, and with '+'.
FileXCY == <<"x", ".", "c", "y">> \o DotC
FileH == <<"h">> \o DotC
FileXPlus == <<"x", "+">> \o DotC
FileXTPlus == <<"x", "T", "+">> \o DotC
ProjO == <<"o">>

\* Every source path of the model, in the order glob returns them.
AllSourcePaths ==
  << SrcRoot \o <<ProjATB, FileX>>,
     SrcRoot \o <<ProjA, DirD, FileX>>,
     SrcRoot \o <<ProjA, FileX>>,
     SrcRoot \o <<ProjA, FileXCY>>,
     SrcRoot \o <<ProjA, FileY>>,
     SrcRoot \o <<ProjB, DirE, FileX>>,
     SrcRoot \o <<ProjTestsA, FileY>> >>

\* Every path below the test root of the model, in the order glob returns
\* them ('.' and '/' sort before '+', which sorts before the letters).
AllTestPaths ==
  << TestRoot \o <<ProjA \o DotT, DirD, FileXT>>,
     TestRoot \o <<ProjA \o DotT, DirE, FileXT>>,
     TestRoot \o <<ProjA \o DotT, FileH>>,
     TestRoot \o <<ProjA \o DotT, FileXPlus>>,
     TestRoot \o <<ProjA \o DotT, FileXT>>,
     TestRoot \o <<ProjA \o DotT, FileUpperXT>>,
     TestRoot \o <<ProjA \o DotT, FileXTPlus>>,
     TestRoot \o <<ProjA \o DotT, FileYT>>,
     TestRoot \o <<ProjA \o DotT, FileZT>>,
     TestRoot \o <<ProjATB \o DotT, FileXT>>,
     TestRoot \o <<ProjB \o DotT, DirE, FileXT>>,
     TestRoot \o <<ProjB \o DotT, FileYT>>,
     TestRoot \o <<ProjO, FileXT>>,
     TestRoot \o <<ProjTestsA \o DotT, FileYT>> >>

BaseOptions ==
  [srcRoot |-> SrcRoot, testRoot |-> TestRoot, fileExtension |-> DotC,
   validateFileName |-> TRUE, validateDirectoryStructure |-> TRUE,
   validateMissingTests |-> TRUE,
   testFileSuffix |-> SuffixT, testProjectSuffix |-> DotT,
   ignoreDirectories |-> <<>>, ignoreFiles |-> <<>>]

\* The options of a run: the validation flags -n, -d, -m and the ignore
\* lists.
OptionSpace ==
  { [BaseOptions EXCEPT !.validateFileName = flags[1],
                        !.validateDirectoryStructure = flags[2],
                        !.validateMissingTests = flags[3]] :
      flags \in {<<TRUE, TRUE, TRUE>>, <<TRUE, TRUE, FALSE>>,
                 <<FALSE, FALSE, TRUE>>, <<FALSE, FALSE, FALSE>>} }
  \cup
  { [BaseOptions EXCEPT !.ignoreDirectories = ignore[1], !.ignoreFiles = ignore[2]] :
      ignore \in { << << <<DirE>> >>, <<>> >>,
                   << << <<ProjA \o DotT>> >>, <<>> >>,
                   << <<>>, << <<"Y", "t">> \o DotC >> >> } }

\* Test file suffixes with the RegExp quantifier '+' (--test-suffix takes
\* any string).
SuffixTPlus == <<"T", "+">>
SuffixPlus == <<"+">>

\* The options of EdgeInit: the test file suffix and the flag -m, and
\* ignoreDirectories entries that are the name of a file and a part of the
\* name of a directory.
EdgeOptionSpace ==
  { [BaseOptions EXCEPT !.testFileSuffix = suffix, !.validateMissingTests = missing] :
      suffix \in {SuffixT, SuffixTPlus, SuffixPlus}, missing \in BOOLEAN }
  \cup
  { [BaseOptions EXCEPT !.ignoreDirectories = << <<entry>> >>] : entry \in {FileXT, ProjA} }

\* The source paths the files of EdgeInit are drawn from.
EdgeSourceUniverse ==
  << SrcRoot \o <<ProjA, FileX>>,
     SrcRoot \o <<ProjA, FileXCY>>,
     SrcRoot \o <<ProjA, FileY>> >>

\* The test-root paths the files of EdgeInit are drawn from: test files
\* for each suffix, a helper file without the suffix and a file of a
\* directory that is no test project.
EdgeTestUniverse ==
  << TestRoot \o <<ProjA \o DotT, FileH>>,
     TestRoot \o <<ProjA \o DotT, FileXPlus>>,
     TestRoot \o <<ProjA \o DotT, FileXT>>,
     TestRoot \o <<ProjA \o DotT, FileXTPlus>>,
     TestRoot \o <<ProjA \o DotT, FileYT>>,
     TestRoot \o <<ProjO, FileXT>> >>

(***************************************************************************)
(* Fixer.                                                                  *)
(***************************************************************************)
\* fs.rename / fs.writeFile + fs.unlink on the test root: the content at
\* from is afterwards at to, replacing what was there.
MoveContent(fs, from, to) ==
  [q \in (DOMAIN fs \ {from}) \cup {to} |-> IF q = to THEN fs[from] ELSE fs[q]]

\* Variant of MoveTestFile that writes the file at its expected path and
\* leaves the original where it is.
MoveTestFileWithoutUnlink(fs, error) ==
  IF error.actualTestPath = <<>> \/ error.expectedTestPath = <<>>
  THEN fs
  ELSE [q \in DOMAIN fs \cup {error.expectedTestPath} |->
          IF q = error.expectedTestPath THEN fs[error.actualTestPath] ELSE fs[q]]

\* Fixer.moveTestFile, all its steps succeeding.
MoveTestFile(fs, error) ==
  IF error.actualTestPath = <<>> \/ error.expectedTestPath = <<>>
  THEN fs
  ELSE MoveContent(fs, error.actualTestPath, error.expectedTestPath)

\* The name of the temporary file of a case-only rename (the time stamp is
\* left out).
TempPath(actualPath, expectedPath) ==
  DirName(actualPath) \o << <<"t", "e", "m", "p", "_">> \o Last(expectedPath) >>

\* Fixer.renameInvalidTestFile, all its steps succeeding.
RenameInvalidTestFile(fs, error) ==
  IF error.actualTestPath = <<>> \/ error.expectedTestPath = <<>>
  THEN fs
  ELSE LET actualPath == error.actualTestPath
           expectedPath == error.expectedTestPath
       IN IF [i \in 1..Len(actualPath) |-> ToLowerCase(actualPath[i])]
               = [i \in 1..Len(expectedPath) |-> ToLowerCase(expectedPath[i])]
          THEN MoveContent(MoveContent(fs, actualPath, TempPath(actualPath, expectedPath)),
                           TempPath(actualPath, expectedPath), expectedPath)
          ELSE MoveContent(fs, actualPath, expectedPath)

\* Variant of IsFixableError that looks at the type only.
IsFixableErrorByTypeOnly(e) ==
  e.type \in {InvalidDirectoryStructure, InvalidFileName}

\* Fixer.isFixable, the predicate of result.errors.find.
IsFixableError(e) ==
  /\ e.type \in {InvalidDirectoryStructure, InvalidFileName}
  /\ e.actualTestPath # <<>>
  /\ e.expectedTestPath # <<>>
  /\ e.sourceFilePath # <<>>

\* Fixer.isFixable: whether the path is fixable, the error message when it
\* is not, and the error to fix (in a list) when it is.
IsFixable(testFilePath, results) ==
  LET found == SelectSeq(results, LAMBDA r : r.testFilePath = testFilePath)
  IN IF found = <<>>
     THEN [isFixable |-> FALSE, error |-> "File not found in analysis results",
           fix |-> <<>>]
     ELSE LET fixable == SelectSeq(found[1].errors, IsFixableError)
          IN IF fixable = <<>>
             THEN [isFixable |-> FALSE,
                   error |-> "File has no fixable directory structure or filename issues",
                   fix |-> <<>>]
             ELSE [isFixable |-> TRUE, error |-> "", fix |-> <<fixable[1]>>]

\* The fix closure isFixable returns: a rename for a file name error, a move
\* otherwise.
ApplyFix(fs, error) ==
  IF error.type = InvalidFileName
  THEN RenameInvalidTestFile(fs, error)
  ELSE MoveTestFile(fs, error)

\* Fixer.tryFixDirectoryError, the two early returns: TRUE when the error is
\* handed to moveTestFile.
IsDirectoryFixable(error) ==
  /\ error.type = InvalidDirectoryStructure
  /\ ~(error.actualTestPath = <<>> \/ error.expectedTestPath = <<>>
         \/ error.sourceFilePath = <<>>)

\* All errors of a list of results, in order.
RECURSIVE AllErrors(_)
AllErrors(results) ==
  IF results = <<>> THEN <<>> ELSE Head(results).errors \o AllErrors(Tail(results))

\* Fixer.fixDirectoryStructure over a list of errors: the file system and
\* the errors moved.  A move whose file is no longer there fails in
\* readFile, which tryFixDirectoryError catches.
RECURSIVE FixDirectoryErrors(_, _, _)
FixDirectoryErrors(errors, fs, fixed) ==
  IF errors = <<>> THEN [fs |-> fs, fixed |-> fixed]
  ELSE IF IsDirectoryFixable(Head(errors)) /\ Head(errors).actualTestPath \in DOMAIN fs
       THEN FixDirectoryErrors(Tail(errors), MoveTestFile(fs, Head(errors)),
                               Append(fixed, Head(errors)))
       ELSE FixDirectoryErrors(Tail(errors), fs, fixed)

\* The CLI's interactive mode, the filter of fixableFiles.
IsInteractiveFixable(r) ==
  \E i \in 1..Len(r.errors) :
     /\ r.errors[i].type = InvalidDirectoryStructure
     /\ r.errors[i].actualTestPath # <<>>
     /\ r.errors[i].expectedTestPath # <<>>
     /\ r.errors[i].sourceFilePath # <<>>

\* The CLI's interactive mode, the loop over the selected paths.
RECURSIVE FixSelected(_, _, _, _)
FixSelected(selectedPaths, results, fs, fixed) ==
  IF selectedPaths = <<>> THEN [fs |-> fs, fixed |-> fixed]
  ELSE LET fixable == IsFixable(Head(selectedPaths), results)
       IN IF fixable.isFixable /\ fixable.fix[1].actualTestPath \in DOMAIN fs
          THEN FixSelected(Tail(selectedPaths), results, ApplyFix(fs, fixable.fix[1]),
                           Append(fixed, fixable.fix[1]))
          ELSE FixSelected(Tail(selectedPaths), results, fs, fixed)

(***************************************************************************)
(* JSON report (src/src/json-reporter.ts).  The path fields of an entry    *)
(* (currentTestFile, sourceFiles, expectedTestFile) and the issue rate are *)
(* left out of the report record.                                          *)
(***************************************************************************)
\* Variant of CountErrorTypes that does not count the MissingTest errors.
CountErrorTypesWithoutMissingTests(results) ==
  LET errors == AllErrors(results)
  IN [directoryStructure |->
        Len(SelectSeq(errors, LAMBDA e : e.type = InvalidDirectoryStructure)),
      filename |-> Len(SelectSeq(errors, LAMBDA e : e.type = InvalidFileName)),
      missingTests |-> 0]

\* countErrorTypes: one count per error of each result, by its type.
CountErrorTypes(results) ==
  LET errors == AllErrors(results)
  IN [directoryStructure |->
        Len(SelectSeq(errors, LAMBDA e : e.type = InvalidDirectoryStructure)),
      filename |-> Len(SelectSeq(errors, LAMBDA e : e.type = InvalidFileName)),
      missingTests |-> Len(SelectSeq(errors, LAMBDA e : e.type = MissingTest))]

\* createFileIssuesList: one entry per error of each result, in order.
RECURSIVE CreateFileIssuesList(_)
CreateFileIssuesList(results) ==
  IF results = <<>> THEN <<>>
  ELSE [j \in 1..Len(Head(results).errors) |->
          [testName |-> Head(results).testFile,
           issueType |-> Head(results).errors[j].type]]
         \o CreateFileIssuesList(Tail(results))

\* generateJsonReport, before JSON.stringify.
GenerateJsonReport(results, totalFiles) ==
  [summary |-> [totalFilesAnalyzed |-> totalFiles,
                totalFilesWithIssues |-> Len(results),
                errorCounts |-> CountErrorTypes(results)],
   filesWithIssues |-> CreateFileIssuesList(results)]

(***************************************************************************)
(* The state: the options of the command line, the files below the two     *)
(* roots, and the lists of one run of the CLI followed by a second run     *)
(* over the files the first one left.                                      *)
(***************************************************************************)
VARIABLES
  options,       \* analyzerOptions of both runs
  srcFs,         \* the source files that exist
  testFs,        \* the files below the test root: path |-> content (named by its first path)
  pc,            \* "start", "analyzed", "fixing", "fixed", "reanalyzed", "done", "threw"
  sourceFiles,   \* the list findSourceFiles returned in the last analysis
  testFiles,     \* the list findTestFiles returned in the last analysis
  unfiltered,    \* results of the last analysis before the final filter
  results,       \* filteredResults of the last analysis
  firstResults,  \* filteredResults of the first run
  fixMode,       \* the fix flag of the first run: "", "fix", "interactive", "all"
  fixTarget,     \* the path given to --fix
  handed,        \* the errors handed to moveTestFile / renameInvalidTestFile
  globError,     \* the enumerations whose glob call failed: subset of {"test", "source"}
  pending,       \* the file-system calls a running fix has still to make
  webviewState,     \* the VS Code extension: its results view and message handlers
  exitCode       \* the exit status of the first run, -1 while it runs

vars == <<options, srcFs, testFs, pc, sourceFiles, testFiles, unfiltered, results,
          firstResults, fixMode, fixTarget, handed, globError, pending, webviewState,
          exitCode>>

\* The extension after activate(): no view is resolved, no handler is
\* registered, no message was posted.
Activated ==
  [currentWebview |-> FALSE, html |-> "none", handlers |-> 0, updates |-> 0,
   posted |-> "", started |-> 0, executing |-> 0]

BoundedSubsets(universe, max) ==
  {S \in SUBSET Range(universe) : Cardinality(S) <= max}

Init ==
  /\ options \in OptionSpace
  /\ srcFs \in BoundedSubsets(SourceUniverse, MaxSourceFiles)
  /\ \E existing \in BoundedSubsets(TestUniverse, MaxTestFiles) :
        testFs = [f \in existing |-> f]
  /\ pc = "start"
  /\ sourceFiles = <<>>
  /\ testFiles = <<>>
  /\ unfiltered = <<>>
  /\ results = <<>>
  /\ firstResults = <<>>
  /\ fixMode = ""
  /\ fixTarget = <<>>
  /\ handed = <<>>
  /\ globError = {}
  /\ pending = <<>>
  /\ webviewState = Activated
  /\ exitCode = -1

\* The test files analyzeProject works on: findTestFiles returns [] when
\* its glob call failed.
EnumeratedTestFiles(failed) ==
  IF "test" \in failed THEN <<>>
  ELSE FindTestFiles(DOMAIN testFs, AllTestPaths, options)

\* The source files analyzeProject works on: findSourceFiles returns []
\* when its glob call failed.
EnumeratedSourceFiles(failed) ==
  IF "source" \in failed THEN <<>>
  ELSE FindSourceFiles(srcFs, AllSourcePaths, options)

\* analyzeProject throws: the first pass of the loop over the test files
\* builds new RegExp(`${testFileSuffix}$`), a SyntaxError for a pattern
\* that is not a regular expression.
AnalysisThrows(failed) ==
  /\ EnumeratedTestFiles(failed) # <<>>
  /\ ~IsValidRegExp(options.testFileSuffix)

\* Analyzer.analyzeProject on the current files.
Analyze(failed) ==
  LET tests == EnumeratedTestFiles(failed)
      sources == EnumeratedSourceFiles(failed)
      raw == UnfilteredResults(sources, tests, options)
  IN /\ testFiles' = tests
     /\ sourceFiles' = sources
     /\ unfiltered' = raw
     /\ results' = FilteredResults(raw, options)

\* The first run of the CLI, up to the report of the results.
AnalyzeProject ==
  /\ pc = "start"
  /\ ~AnalysisThrows({})
  /\ Analyze({})
  /\ firstResults' = results'
  /\ pc' = "analyzed"
  /\ UNCHANGED <<options, webviewState, pending, globError, srcFs, testFs, fixMode, fixTarget, handed, exitCode>>

\* The first run when a glob call fails: the catch blocks of findTestFiles
\* and findSourceFiles log the error and return [].
AnalyzeProjectGlobFails(failed) ==
  /\ pc = "start"
  /\ failed # {}
  /\ ~AnalysisThrows(failed)
  /\ Analyze(failed)
  /\ globError' = failed
  /\ firstResults' = results'
  /\ pc' = "analyzed"
  /\ UNCHANGED <<options, webviewState, pending, srcFs, testFs, fixMode, fixTarget, handed, exitCode>>

\* The first run when analyzeProject throws: the catch block of the command
\* action prints the error and ends the process with status 1.
AnalyzeProjectThrows(failed) ==
  /\ pc = "start"
  /\ AnalysisThrows(failed)
  /\ testFiles' = EnumeratedTestFiles(failed)
  /\ sourceFiles' = EnumeratedSourceFiles(failed)
  /\ globError' = failed
  /\ exitCode' = 1
  /\ pc' = "threw"
  /\ UNCHANGED <<options, webviewState, pending, srcFs, testFs, unfiltered, results, firstResults,
                 fixMode, fixTarget, handed>>

\* The fix flags of the command line (.option('--fix <path>'),
\* '--interactive', '--all'), "" for none.
FixFlags == {"", "fix", "interactive", "all"}

\* The first run finds nothing: whatever fix flag was given, the branch
\* "if (results.length > 0)" is skipped and the process ends with status 0.
CliNoIssues(flag, testPath) ==
  /\ pc = "analyzed"
  /\ Len(results) = 0
  /\ flag = "fix" <=> testPath # <<>>
  /\ fixMode' = flag
  /\ fixTarget' = testPath
  /\ exitCode' = 0
  /\ pc' = "done"
  /\ UNCHANGED <<options, webviewState, pending, globError, srcFs, testFs, sourceFiles, testFiles, unfiltered, results,
                 firstResults, handed>>

\* The first run without a fix flag: findings exit with status 1.
CliReportOnly ==
  /\ pc = "analyzed"
  /\ Len(results) > 0
  /\ exitCode' = 1
  /\ pc' = "done"
  /\ UNCHANGED <<options, webviewState, pending, globError, srcFs, testFs, sourceFiles, testFiles, unfiltered, results,
                 firstResults, fixMode, fixTarget, handed>>

\* The paths a user gives to --fix: an existing file or the path of a
\* result.
FixTargets ==
  DOMAIN testFs \cup {unfiltered[i].testFilePath : i \in 1..Len(unfiltered)}

\* --fix <path>
CliFix(testPath) ==
  /\ pc = "analyzed"
  /\ Len(results) > 0
  /\ fixMode' = "fix"
  /\ fixTarget' = testPath
  /\ LET fixable == IsFixable(testPath, results)
     IN IF fixable.isFixable
        THEN /\ handed' = fixable.fix
             /\ testFs' = ApplyFix(testFs, fixable.fix[1])
             /\ exitCode' = 0
             /\ pc' = "fixed"
        ELSE /\ exitCode' = 1
             /\ pc' = "done"
             /\ UNCHANGED <<testFs, handed>>
  /\ UNCHANGED <<options, webviewState, pending, globError, srcFs, sourceFiles, testFiles, unfiltered, results, firstResults>>

\* The sub-lists of a list, as lists in the same order.
RECURSIVE SubLists(_)
SubLists(seq) ==
  IF seq = <<>> THEN {<<>>}
  ELSE LET rest == SubLists(Tail(seq))
       IN rest \cup {<<Head(seq)>> \o r : r \in rest}

\* The paths the interactive prompt offers: those of the fixable files.
InteractiveChoices ==
  LET fixableFiles == SelectSeq(results, IsInteractiveFixable)
  IN [i \in 1..Len(fixableFiles) |-> fixableFiles[i].testFilePath]

\* --interactive: the user selects among the fixable files.
CliInteractive(selectedPaths) ==
  /\ pc = "analyzed"
  /\ Len(results) > 0
  /\ fixMode' = "interactive"
  /\ IF InteractiveChoices = <<>>
     THEN /\ exitCode' = 1
          /\ pc' = "done"
          /\ UNCHANGED <<testFs, handed>>
     ELSE IF selectedPaths = <<>>
     THEN /\ exitCode' = 0
          /\ pc' = "done"
          /\ UNCHANGED <<testFs, handed>>
     ELSE LET done == FixSelected(selectedPaths, results, testFs, <<>>)
          IN /\ testFs' = done.fs
             /\ handed' = done.fixed
             /\ exitCode' = 0
             /\ pc' = "fixed"
  /\ UNCHANGED <<options, webviewState, pending, globError, srcFs, sourceFiles, testFiles, unfiltered, results,
                 firstResults, fixTarget>>

\* --all
CliFixAll ==
  /\ pc = "analyzed"
  /\ Len(results) > 0
  /\ fixMode' = "all"
  /\ LET done == FixDirectoryErrors(AllErrors(results), testFs, <<>>)
     IN /\ testFs' = done.fs
        /\ handed' = done.fixed
  /\ exitCode' = 0
  /\ pc' = "fixed"
  /\ UNCHANGED <<options, webviewState, pending, globError, srcFs, sourceFiles, testFiles, unfiltered, results,
                 firstResults, fixTarget>>

\* The second run of the CLI, with the same options and no fix flag.
Reanalyze ==
  /\ pc = "fixed"
  /\ Analyze({})
  /\ pc' = "reanalyzed"
  /\ UNCHANGED <<options, webviewState, pending, globError, srcFs, testFs, firstResults, fixMode, fixTarget, handed, exitCode>>

Next ==
  \/ AnalyzeProject
  \/ \E flag \in FixFlags : \E testPath \in FixTargets \cup {<<>>} : CliNoIssues(flag, testPath)
  \/ CliReportOnly
  \/ \E testPath \in FixTargets : CliFix(testPath)
  \/ \E selectedPaths \in SubLists(InteractiveChoices) : CliInteractive(selectedPaths)
  \/ CliFixAll
  \/ Reanalyze

Spec == Init /\ [][Next]_vars

(***************************************************************************)
(* The first run on wider inputs: suffixes with RegExp characters, files   *)
(* below the test root that are no test files, and glob calls that fail.   *)
(***************************************************************************)
GlobErrors == SUBSET {"test", "source"}

EdgeInit ==
  /\ options \in EdgeOptionSpace
  /\ srcFs \in BoundedSubsets(EdgeSourceUniverse, MaxSourceFiles)
  /\ \E existing \in BoundedSubsets(EdgeTestUniverse, MaxTestFiles) :
        testFs = [f \in existing |-> f]
  /\ pc = "start"
  /\ sourceFiles = <<>>
  /\ testFiles = <<>>
  /\ unfiltered = <<>>
  /\ results = <<>>
  /\ firstResults = <<>>
  /\ fixMode = ""
  /\ fixTarget = <<>>
  /\ handed = <<>>
  /\ globError = {}
  /\ pending = <<>>
  /\ webviewState = Activated
  /\ exitCode = -1

EdgeNext ==
  \/ AnalyzeProject
  \/ \E failed \in GlobErrors : AnalyzeProjectGlobFails(failed)
  \/ \E failed \in GlobErrors : AnalyzeProjectThrows(failed)
  \/ \E flag \in FixFlags : \E testPath \in FixTargets \cup {<<>>} : CliNoIssues(flag, testPath)
  \/ CliReportOnly

EdgeSpec == EdgeInit /\ [][EdgeNext]_vars

(***************************************************************************)
(* --fix <path>, one file-system call at a time.  A call that fails throws *)
(* out of the fix closure; the command action's catch ends the process     *)
(* with status 1.  A failing call leaves the files as they are.            *)
(***************************************************************************)
\* The file-system calls of moveTestFile.
MoveTestFileCalls(error) ==
  IF error.actualTestPath = <<>> \/ error.expectedTestPath = <<>>
  THEN <<>>
  ELSE << [call |-> "readFile", from |-> error.actualTestPath, to |-> <<>>],
          [call |-> "mkdir", from |-> <<>>, to |-> DirName(error.expectedTestPath)],
          [call |-> "writeFile", from |-> error.actualTestPath, to |-> error.expectedTestPath],
          [call |-> "unlink", from |-> error.actualTestPath, to |-> <<>>] >>

\* The file-system calls of renameInvalidTestFile.
RenameInvalidTestFileCalls(error) ==
  IF error.actualTestPath = <<>> \/ error.expectedTestPath = <<>>
  THEN <<>>
  ELSE LET actualPath == error.actualTestPath
           expectedPath == error.expectedTestPath
           tempPath == TempPath(actualPath, expectedPath)
       IN IF [i \in 1..Len(actualPath) |-> ToLowerCase(actualPath[i])]
               = [i \in 1..Len(expectedPath) |-> ToLowerCase(expectedPath[i])]
          THEN << [call |-> "rename", from |-> actualPath, to |-> tempPath],
                  [call |-> "rename", from |-> tempPath, to |-> expectedPath] >>
          ELSE << [call |-> "rename", from |-> actualPath, to |-> expectedPath] >>

\* The calls of the fix closure isFixable returns.
FixCalls(error) ==
  IF error.type = InvalidFileName
  THEN RenameInvalidTestFileCalls(error)
  ELSE MoveTestFileCalls(error)

\* The files after one successful call.
AfterCall(fs, c) ==
  CASE c.call = "rename" -> MoveContent(fs, c.from, c.to)
    [] c.call = "writeFile" -> [q \in DOMAIN fs \cup {c.to} |-> IF q = c.to THEN fs[c.from] ELSE fs[q]]
    [] c.call = "unlink" -> [q \in DOMAIN fs \ {c.from} |-> fs[q]]
    [] OTHER -> fs

\* --fix <path> on a fixable file: the fix closure is called.
CliFixBegin(testPath) ==
  /\ pc = "analyzed"
  /\ Len(results) > 0
  /\ IsFixable(testPath, results).isFixable
  /\ fixMode' = "fix"
  /\ fixTarget' = testPath
  /\ handed' = IsFixable(testPath, results).fix
  /\ pending' = FixCalls(IsFixable(testPath, results).fix[1])
  /\ pc' = "fixing"
  /\ UNCHANGED <<options, webviewState, globError, srcFs, testFs, sourceFiles, testFiles, unfiltered,
                 results, firstResults, exitCode>>

\* The next call of the fix succeeds; after the last one the fix is
\* reported and the process ends with status 0.
FixCallSucceeds ==
  /\ pc = "fixing"
  /\ pending # <<>>
  /\ testFs' = AfterCall(testFs, Head(pending))
  /\ pending' = Tail(pending)
  /\ IF Tail(pending) = <<>>
     THEN pc' = "fixed" /\ exitCode' = 0
     ELSE UNCHANGED <<pc, exitCode>>
  /\ UNCHANGED <<options, webviewState, globError, srcFs, sourceFiles, testFiles, unfiltered, results,
                 firstResults, fixMode, fixTarget, handed>>

\* The next call of the fix fails.
FixCallFails ==
  /\ pc = "fixing"
  /\ pending # <<>>
  /\ exitCode' = 1
  /\ pc' = "done"
  /\ UNCHANGED <<options, webviewState, globError, pending, srcFs, testFs, sourceFiles, testFiles,
                 unfiltered, results, firstResults, fixMode, fixTarget, handed>>

FixCallsInit ==
  /\ options = BaseOptions
  /\ srcFs \in BoundedSubsets(SourceUniverse, MaxSourceFiles)
  /\ \E existing \in BoundedSubsets(TestUniverse, MaxTestFiles) :
        testFs = [f \in existing |-> f]
  /\ pc = "start"
  /\ sourceFiles = <<>>
  /\ testFiles = <<>>
  /\ unfiltered = <<>>
  /\ results = <<>>
  /\ firstResults = <<>>
  /\ fixMode = ""
  /\ fixTarget = <<>>
  /\ handed = <<>>
  /\ globError = {}
  /\ pending = <<>>
  /\ webviewState = Activated
  /\ exitCode = -1

FixCallsNext ==
  \/ AnalyzeProject
  \/ \E testPath \in FixTargets : CliFixBegin(testPath)
  \/ FixCallSucceeds
  \/ FixCallFails

FixCallsSpec == FixCallsInit /\ [][FixCallsNext]_vars

(***************************************************************************)
(* The VS Code extension (src/unnamed/part_013): the results view and the  *)
(* handlers of the messages it posts.  The analysis and the fix themselves *)
(* are left out; handlers counts the listeners that onDidReceiveMessage    *)
(* has registered on the current webview, updates the calls of             *)
(* updateWebview, started and executing the fix actions the last posted    *)
(* message has started and those still running.                            *)
(***************************************************************************)
\* updateWebview: without a view nothing happens; otherwise the html is
\* replaced and one more listener is registered (the earlier ones are not
\* disposed of).
UpdateWebview(ext) ==
  IF ~ext.currentWebview THEN ext
  ELSE [ext EXCEPT !.html = "results", !.handlers = @ + 1, !.updates = @ + 1]

\* resolveWebviewView, when the view is shown for the first time or shown
\* again after it was hidden: currentWebview becomes the new webview, which
\* has no listener and no page yet (updateInitialView runs before the
\* assignment, on the webview that was current until then).
ResolveWebviewView ==
  /\ webviewState.executing = 0
  /\ webviewState' = [webviewState EXCEPT !.currentWebview = TRUE, !.html = "none",
                                          !.handlers = 0]
  /\ UNCHANGED <<options, globError, pending, srcFs, testFs, pc, sourceFiles, testFiles,
                 unfiltered, results, firstResults, fixMode, fixTarget, handed, exitCode>>

\* The command test-filestructure-linter.analyze, run by the user.
AnalyzeCommand ==
  /\ webviewState.updates < MaxViewUpdates
  /\ webviewState.executing = 0
  /\ webviewState' = UpdateWebview(webviewState)
  /\ UNCHANGED <<options, globError, pending, srcFs, testFs, pc, sourceFiles, testFiles,
                 unfiltered, results, firstResults, fixMode, fixTarget, handed, exitCode>>

\* The results view posts 'fix' or 'fixAll' (a click on a button of the
\* results page): every registered listener receives the message and
\* starts the fix action.
PostMessage(command) ==
  /\ webviewState.html = "results"
  /\ webviewState.executing = 0
  /\ webviewState.updates + webviewState.handlers <= MaxViewUpdates
  /\ webviewState' = [webviewState EXCEPT !.posted = command, !.started = webviewState.handlers,
                                    !.executing = webviewState.handlers]
  /\ UNCHANGED <<options, globError, pending, srcFs, testFs, pc, sourceFiles, testFiles,
                 unfiltered, results, firstResults, fixMode, fixTarget, handed, exitCode>>

\* handleFixAction or handleFixAllAction runs to its end: it refreshes the
\* view (through the analyze command, or by updateWebview itself).
FixActionCompletes ==
  /\ webviewState.executing > 0
  /\ webviewState' = UpdateWebview([webviewState EXCEPT !.executing = @ - 1])
  /\ UNCHANGED <<options, globError, pending, srcFs, testFs, pc, sourceFiles, testFiles,
                 unfiltered, results, firstResults, fixMode, fixTarget, handed, exitCode>>

\* handleFixAction or handleFixAllAction returns early or catches an
\* error: the view is not refreshed.
FixActionFails ==
  /\ webviewState.executing > 0
  /\ webviewState' = [webviewState EXCEPT !.executing = @ - 1]
  /\ UNCHANGED <<options, globError, pending, srcFs, testFs, pc, sourceFiles, testFiles,
                 unfiltered, results, firstResults, fixMode, fixTarget, handed, exitCode>>

ExtensionInit ==
  /\ options = BaseOptions
  /\ srcFs = {}
  /\ testFs = <<>>
  /\ pc = "start"
  /\ sourceFiles = <<>>
  /\ testFiles = <<>>
  /\ unfiltered = <<>>
  /\ results = <<>>
  /\ firstResults = <<>>
  /\ fixMode = ""
  /\ fixTarget = <<>>
  /\ handed = <<>>
  /\ globError = {}
  /\ pending = <<>>
  /\ webviewState = Activated
  /\ exitCode = -1

ExtensionNext ==
  \/ ResolveWebviewView
  \/ AnalyzeCommand
  \/ \E command \in {"fix", "fixAll"} : PostMessage(command)
  \/ FixActionCompletes
  \/ FixActionFails

ExtensionSpec == ExtensionInit /\ [][ExtensionNext]_vars

(***************************************************************************)
(* Vocabulary of the properties.                                           *)
(***************************************************************************)
\* The findings about test file t among results rs.
FindingsFor(t, rs) == SelectSeq(AllErrors(rs), LAMBDA e : e.actualTestPath = t)

\* The results of rs keyed at a path.
ResultsAt(path, rs) == SelectSeq(rs, LAMBDA r : r.testFilePath = path)

\* The candidates of test file t: the source files whose base name is the
\* base name of t without the test file suffix, ignoring case.
Candidates(t) ==
  LET base == BaseName(Last(t), options.fileExtension)
      inferred == SubSeq(base, 1, Len(base) - Len(options.testFileSuffix))
  IN SelectSeq(sourceFiles,
               LAMBDA f : ToLowerCase(BaseName(Last(f), options.fileExtension))
                            = ToLowerCase(inferred))

\* The name of the innermost directory of a path below a root.
LeafDirectory(root, p) == Last(DirSegments(Relative(root, p)))

HasAllThreePaths(e) ==
  e.sourceFilePath # <<>> /\ e.actualTestPath # <<>> /\ e.expectedTestPath # <<>>

IsMultipleMatchFinding(e) ==
  e.message.text = "Multiple matching source files found (). Unable to determine correct source file"

(***************************************************************************)
(* C1.  Round trip of the naming convention: when the test file list has a *)
(* file at exactly calculateExpectedTestPath(p) for a source file p of the *)
(* source list, the output has no finding for that test file that is about *)
(* p (one naming p among its source files, or one naming no source file).  *)
(***************************************************************************)
C1_RoundTrip ==
  \A i \in 1..Len(sourceFiles) :
    LET p == sourceFiles[i]
        t == CalculateExpectedTestPath(p, options)
    IN t \in Range(testFiles) =>
         \A k \in 1..Len(results) :
           results[k].testFilePath = t =>
             \A j \in 1..Len(results[k].errors) :
               LET e == results[k].errors[j]
               IN e.sourceFilePath # <<>> /\ p \notin Range(e.sourceFilePath)

C3_LeafDirectoryTieBreak ==
  \A i \in 1..Len(testFiles) :
    LET t == testFiles[i]
        cands == Candidates(t)
        leafMatches ==
          SelectSeq(cands,
                    LAMBDA f : ToLowerCase(LeafDirectory(options.srcRoot, f))
                                 = ToLowerCase(LeafDirectory(options.testRoot, t)))
    IN (Len(cands) = 2 /\ Len(leafMatches) = 1) =>
         \A j \in 1..Len(FindingsFor(t, unfiltered)) :
           LET e == FindingsFor(t, unfiltered)[j]
           IN ~IsMultipleMatchFinding(e) /\ e.sourceFilePath = leafMatches

(***************************************************************************)
(* C4.  A test file with no matching source file gets exactly one finding: *)
(* InvalidDirectoryStructure, "Source file not found: <inferred base       *)
(* name><extension>", with neither sourceFilePath nor expectedTestPath.    *)
(***************************************************************************)
C4_NoMatchFinding ==
  \A i \in 1..Len(testFiles) :
    LET t == testFiles[i]
        base == BaseName(Last(t), options.fileExtension)
        inferred == SubSeq(base, 1, Len(base) - Len(options.testFileSuffix))
    IN Len(Candidates(t)) = 0 =>
         /\ FindingsFor(t, unfiltered)
              = <<AnalysisError(InvalidDirectoryStructure,
                    Message("Source file not found: ",
                            inferred \o options.fileExtension, <<>>, 0),
                    <<>>, t, <<>>)>>
         /\ Len(ResultsAt(t, unfiltered)) = 1
         /\ Len(ResultsAt(t, unfiltered)[1].errors) = 1

\* C4 witness: the output has the finding of a test file without candidate.
C4_Witness ==
  \E i \in 1..Len(testFiles) :
    /\ Len(Candidates(testFiles[i])) = 0
    /\ Len(ResultsAt(testFiles[i], results)) = 1
    /\ ResultsAt(testFiles[i], results)[1].errors[1].message.text = "Source file not found: "

(***************************************************************************)
(* C5.  Missing-test sweep: with validateMissingTests, every source file   *)
(* whose base name equals no test file's base name without the test file   *)
(* suffix gets exactly one MissingTest result, keyed at its expected test  *)
(* path, with the message "Missing test file for source file: <source      *)
(* path>"; without validateMissingTests there is no MissingTest result.    *)
(***************************************************************************)
C5_MissingTestSweep ==
  LET strippedTestNames ==
        {LET base == BaseName(Last(testFiles[i]), options.fileExtension)
         IN SubSeq(base, 1, Len(base) - Len(options.testFileSuffix)) :
           i \in 1..Len(testFiles)}
      missing == SelectSeq(unfiltered,
                           LAMBDA r : \E j \in 1..Len(r.errors) : r.errors[j].type = MissingTest)
  IN IF options.validateMissingTests
     THEN \A i \in 1..Len(sourceFiles) :
            LET f == sourceFiles[i]
            IN BaseName(Last(f), options.fileExtension) \notin strippedTestNames =>
                 SelectSeq(missing, LAMBDA r : r.errors[1].message.path = f)
                   = <<AnalysisResult(CalculateExpectedTestPath(f, options),
                         <<AnalysisError(MissingTest,
                             Message("Missing test file for source file: ", <<>>, f, 0),
                             <<>>, <<>>, <<>>)>>)>>
     ELSE missing = <<>>

\* C5 witness: a source file differing from a test file's stripped name
\* only in letter case has its MissingTest result in the output.
C5_Witness ==
  \E i \in 1..Len(sourceFiles), k \in 1..Len(testFiles) :
    /\ Len(Candidates(testFiles[k])) > 0
    /\ Candidates(testFiles[k])[1] = sourceFiles[i]
    /\ \E j \in 1..Len(results) :
         /\ results[j].errors[1].type = MissingTest
         /\ results[j].errors[1].message.path = sourceFiles[i]
         /\ results[j].testFilePath = CalculateExpectedTestPath(sourceFiles[i], options)

(***************************************************************************)
(* C6.  Ignore-list exclusion: no result of the output has a test path     *)
(* whose directories contain an ignoreDirectories entry or whose file name *)
(* equals an ignoreFiles entry ignoring case.                              *)
(***************************************************************************)
C6_IgnoreListExclusion ==
  \A k \in 1..Len(results) :
    /\ \A i \in 1..Len(options.ignoreDirectories) :
          ~ContainsDirectory(DirName(results[k].testFilePath), options.ignoreDirectories[i])
    /\ \A i \in 1..Len(options.ignoreFiles) :
          ToLowerCase(results[k].testFile) # ToLowerCase(options.ignoreFiles[i])

\* C6 witness: the analysis produced a result below an ignored directory,
\* and one more result that is in the output.
C6_Witness ==
  /\ \E k \in 1..Len(unfiltered), i \in 1..Len(options.ignoreDirectories) :
        ContainsDirectory(DirName(unfiltered[k].testFilePath), options.ignoreDirectories[i])
  /\ Len(results) > 0

(***************************************************************************)
(* C9.  The validations are opt-in: without validateDirectoryStructure no  *)
(* InvalidDirectoryStructure finding is emitted, without validateFileName  *)
(* no InvalidFileName finding, without validateMissingTests no MissingTest *)
(* finding.                                                                *)
(***************************************************************************)
C9_ValidationsOptIn ==
  \A k \in 1..Len(results) : \A j \in 1..Len(results[k].errors) :
    LET e == results[k].errors[j]
    IN /\ e.type = InvalidDirectoryStructure => options.validateDirectoryStructure
       /\ e.type = InvalidFileName => options.validateFileName
       /\ e.type = MissingTest => options.validateMissingTests

(***************************************************************************)
(* C10.  Path fields: an InvalidDirectoryStructure finding of a test file  *)
(* resolved to one source file has sourceFilePath, actualTestPath and      *)
(* expectedTestPath; the finding of a test file with several unresolved    *)
(* candidates has sourceFilePath (all the candidates) and actualTestPath   *)
(* and no expectedTestPath.                                                *)
(***************************************************************************)
C10_PathFields ==
  \A i \in 1..Len(testFiles) :
    LET t == testFiles[i]
        cands == Candidates(t)
        resolved == IF Len(cands) = 1 THEN cands
                    ELSE MatchingSourceByDir(cands, t, options)
    IN \A j \in 1..Len(FindingsFor(t, unfiltered)) :
         LET e == FindingsFor(t, unfiltered)[j]
         IN /\ (resolved # <<>> /\ e.type = InvalidDirectoryStructure) =>
                 /\ HasAllThreePaths(e)
                 /\ e.sourceFilePath = resolved
            /\ (Len(cands) > 1 /\ resolved = <<>>) =>
                 /\ e.type = InvalidDirectoryStructure
                 /\ e.sourceFilePath = cands
                 /\ e.actualTestPath = t
                 /\ e.expectedTestPath = <<>>

\* C10 witness: the output has the finding of a test file whose two
\* candidates are not resolved.
C10_Witness ==
  \E i \in 1..Len(testFiles) :
    /\ Len(Candidates(testFiles[i])) > 1
    /\ MatchingSourceByDir(Candidates(testFiles[i]), testFiles[i], options) = <<>>
    /\ Len(FindingsFor(testFiles[i], results)) = 1

(***************************************************************************)
(* C7.  Fix then re-analyse: after --fix has moved or renamed the file of  *)
(* a fixable finding, no file is at the finding's actualTestPath, the file *)
(* is at its expectedTestPath, and the second run with the same options    *)
(* reports nothing at that path and fewer results than the first run.      *)
(***************************************************************************)
C7_FixThenReanalyse ==
  (pc = "reanalyzed" /\ fixMode = "fix" /\ handed # <<>>) =>
    /\ handed[1].actualTestPath \notin DOMAIN testFs
    /\ handed[1].expectedTestPath \in DOMAIN testFs
    /\ testFs[handed[1].expectedTestPath] = handed[1].actualTestPath
    /\ ResultsAt(handed[1].expectedTestPath, results) = <<>>
    /\ Len(results) < Len(firstResults)

(***************************************************************************)
(* C8.  Only a finding that has actualTestPath, expectedTestPath and       *)
(* sourceFilePath is treated as fixable: every error that --fix, --all or  *)
(* the interactive mode hands to the move or rename has all three, and a   *)
(* file of the test root is at another path than at the start only through *)
(* such an error.                                                          *)
(***************************************************************************)
C8_FixableHasAllThreePaths ==
  /\ \A i \in 1..Len(handed) : HasAllThreePaths(handed[i])
  /\ \A f \in DOMAIN testFs :
        testFs[f] # f =>
          \E i \in 1..Len(handed) :
            /\ handed[i].expectedTestPath = f
            /\ HasAllThreePaths(handed[i])

\* C8 witness: --all has moved a file while the results also held a finding
\* that lacks one of the three paths, whose file stays where it was.
C8_Witness ==
  /\ pc = "fixed"
  /\ fixMode = "all"
  /\ Len(handed) > 0
  /\ \E f \in DOMAIN testFs : testFs[f] # f
  /\ \E k \in 1..Len(firstResults) :
        LET e == firstResults[k].errors[1]
        IN /\ ~HasAllThreePaths(e)
           /\ e.actualTestPath \in DOMAIN testFs
           /\ testFs[e.actualTestPath] = e.actualTestPath

(***************************************************************************)
(* C11.  Every result of the output has a non-empty list of errors, and    *)
(* each analysed test file contributes at most one result, which carries   *)
(* exactly one finding.                                                    *)
(***************************************************************************)
C11_ResultsHaveOneFinding ==
  /\ \A k \in 1..Len(results) : results[k].errors # <<>>
  /\ \A k \in 1..Len(unfiltered) : unfiltered[k].errors # <<>>
  /\ \A i \in 1..Len(testFiles) :
        LET own == SelectSeq(unfiltered,
                             LAMBDA r : /\ r.testFilePath = testFiles[i]
                                        /\ \A j \in 1..Len(r.errors) :
                                              r.errors[j].type # MissingTest)
        IN /\ Len(own) <= 1
           /\ \A k \in 1..Len(own) : Len(own[k].errors) = 1

\* C11 witness: one analysed test file has no result, another has its
\* result in the output.
C11_Witness ==
  /\ \E i \in 1..Len(testFiles) : ResultsAt(testFiles[i], unfiltered) = <<>>
  /\ \E i \in 1..Len(testFiles) : Len(ResultsAt(testFiles[i], results)) = 1

(***************************************************************************)
(* C19.  findMatchingSourceFiles(sourceFiles, baseName, extension), as     *)
(* analyzeProject calls it for a test file, returns exactly the entries of *)
(* sourceFiles whose file base name equals baseName ignoring letter case,  *)
(* in the order they have in sourceFiles; no, one and several matches are  *)
(* all returned as lists.                                                  *)
(***************************************************************************)
C19_FindMatchingSourceFiles ==
  \A i \in 1..Len(testFiles) :
    LET baseName == InferredSourceName(testFiles[i], options)
        extension == options.fileExtension
        matching == FindMatchingSourceFiles(sourceFiles, baseName, extension)
        base(f) == SubSeq(Last(f), 1, Len(Last(f)) - Len(extension))
        wanted == {k \in 1..Len(sourceFiles) :
                     ToLowerCase(base(sourceFiles[k])) = ToLowerCase(baseName)}
        index(f) == CHOOSE k \in 1..Len(sourceFiles) : sourceFiles[k] = f
    IN /\ Len(matching) = Cardinality(wanted)
       /\ \A k \in wanted : sourceFiles[k] \in Range(matching)
       /\ \A a \in 1..Len(matching) :
            /\ matching[a] \in {sourceFiles[k] : k \in wanted}
            /\ \A b \in 1..Len(matching) :
                 a < b => index(matching[a]) < index(matching[b])

\* C19 witness: a test file has two matching source files, both differing
\* from the inferred base name in letter case, and its finding lists them
\* in the order of the source list.
C19_Witness ==
  \E i \in 1..Len(testFiles) :
    LET baseName == InferredSourceName(testFiles[i], options)
        matching == FindMatchingSourceFiles(sourceFiles, baseName, options.fileExtension)
    IN /\ Len(matching) = 2
       /\ BaseName(Last(matching[1]), options.fileExtension) # baseName
       /\ Len(FindingsFor(testFiles[i], results)) = 1
       /\ FindingsFor(testFiles[i], results)[1].sourceFilePath = matching

(***************************************************************************)
(* C17.  The process ends with status 0 exactly when the analysis found no *)
(* issue or every requested fix was applied, and with status 1 when        *)
(* findings were reported and no fix was applied.                          *)
(***************************************************************************)
C17_ExitStatus ==
  /\ exitCode = 0 => (Len(firstResults) = 0 \/ handed # <<>>)
  /\ (exitCode # -1 /\ Len(firstResults) > 0 /\ handed = <<>>) => exitCode = 1

(***************************************************************************)
(* C18.  When --fix names a path that is not a fixable finding of the      *)
(* analysis (no result has that path, or its result has no                 *)
(* InvalidDirectoryStructure or InvalidFileName error with all three       *)
(* paths), the process ends with status 1 and no file has been touched.    *)
(***************************************************************************)
C18_FixValidatesFirst ==
  (exitCode # -1 /\ fixMode = "fix" /\ ~IsFixable(fixTarget, firstResults).isFixable) =>
     /\ exitCode = 1
     /\ handed = <<>>
     /\ testFs = [f \in DOMAIN testFs |-> f]

(***************************************************************************)
(* C13.  For every source file p, calculateExpectedTestPath(p, options) is *)
(* testRoot, then the first directory of p below srcRoot with              *)
(* testProjectSuffix appended, then the directories between it and the     *)
(* file, then B + testFileSuffix + E, where E is the extension of the file *)
(* name and B the file name with that extension cut off its end.           *)
(***************************************************************************)
C13_ExpectedTestPath ==
  \A i \in 1..Len(sourceFiles) :
    LET p == sourceFiles[i]
        segments == Relative(options.srcRoot, p)
        E == ExtName(Last(p))
        B == SubSeq(Last(p), 1, Len(Last(p)) - Len(E))
    IN CalculateExpectedTestPath(p, options)
         = options.testRoot \o <<segments[1] \o options.testProjectSuffix>>
             \o SubSeq(segments, 2, Len(segments) - 1)
             \o <<B \o options.testFileSuffix \o E>>

(***************************************************************************)
(* C14.  With a non-empty testFileSuffix of any characters, the analysis   *)
(* never throws: every run ends with its results as data.                  *)
(***************************************************************************)
C14_ValidatorTotal ==
  options.testFileSuffix # <<>> => pc # "threw"

(***************************************************************************)
(* C15.  When the enumeration of the test files or of the source files     *)
(* fails, the failed list is empty and the completed analysis reports no   *)
(* finding.                                                                *)
(***************************************************************************)
C15_FailOpen ==
  (pc = "analyzed" /\ globError # {}) =>
     /\ "test" \in globError => testFiles = <<>>
     /\ "source" \in globError => sourceFiles = <<>>
     /\ results = <<>>

(***************************************************************************)
(* C16.  Every InvalidFileName or InvalidDirectoryStructure finding is on  *)
(* a file below the test root whose base name ends with testFileSuffix and *)
(* whose top-level directory ends with testProjectSuffix; helper files and *)
(* files of other directories get none.                                    *)
(***************************************************************************)
C16_OnlyTestFilesAnalysed ==
  \A k \in 1..Len(unfiltered) : \A j \in 1..Len(unfiltered[k].errors) :
    unfiltered[k].errors[j].type \in {InvalidFileName, InvalidDirectoryStructure} =>
      LET f == unfiltered[k].testFilePath
      IN /\ f \in DOMAIN testFs
         /\ EndsWith(BaseName(Last(f), options.fileExtension), options.testFileSuffix)
         /\ EndsWith(Relative(options.testRoot, f)[1], options.testProjectSuffix)

\* C16 witness: a helper file or a file of a directory that is no test
\* project exists and is not analysed, while a test file next to it has
\* its finding.
C16_Witness ==
  /\ pc = "analyzed"
  /\ \E f \in DOMAIN testFs :
        /\ \/ ~EndsWith(BaseName(Last(f), options.fileExtension), options.testFileSuffix)
           \/ ~EndsWith(Relative(options.testRoot, f)[1], options.testProjectSuffix)
        /\ f \notin Range(testFiles)
        /\ ResultsAt(f, results) = <<>>
  /\ \E i \in 1..Len(testFiles) :
        /\ Len(FindingsFor(testFiles[i], results)) = 1
        /\ FindingsFor(testFiles[i], results)[1].type
             \in {InvalidFileName, InvalidDirectoryStructure}

(***************************************************************************)
(* C20.  For every source file p and a suffix that is a regular            *)
(* expression, stripping testFileSuffix from the base name of              *)
(* calculateExpectedTestPath(p, options) the way the validator strips it   *)
(* and appending testFileSuffix again gives that base name back.           *)
(***************************************************************************)
C20_SuffixInverse ==
  IsValidRegExp(options.testFileSuffix) =>
    \A i \in 1..Len(sourceFiles) :
      LET expectedTestPath == CalculateExpectedTestPath(sourceFiles[i], options)
          testBaseName == BaseName(Last(expectedTestPath), options.fileExtension)
      IN ReplaceSuffixRegExp(testBaseName, options.testFileSuffix) \o options.testFileSuffix
           = testBaseName

(***************************************************************************)
(* C21.  In the JSON report of the results of an analysis,                 *)
(* summary.totalFilesWithIssues is the number of entries of                *)
(* filesWithIssues, and the three error counts add up to that number.      *)
(***************************************************************************)
C21_ReportCounts ==
  LET report == GenerateJsonReport(results, Len(testFiles) + Len(sourceFiles))
      counts == report.summary.errorCounts
  IN /\ report.summary.totalFilesWithIssues = Len(report.filesWithIssues)
     /\ counts.directoryStructure + counts.filename + counts.missingTests
          = Len(report.filesWithIssues)

\* C21 witness: the report of an analysis counts a MissingTest error and
\* an error of another type.
C21_Witness ==
  LET report == GenerateJsonReport(results, Len(testFiles) + Len(sourceFiles))
      counts == report.summary.errorCounts
  IN /\ pc = "analyzed"
     /\ counts.missingTests >= 1
     /\ counts.directoryStructure + counts.filename >= 1
     /\ report.summary.totalFilesWithIssues >= 2

(***************************************************************************)
(* C22.  The source base name inferred from a test file is its base name   *)
(* with one literal trailing occurrence of testFileSuffix removed; nothing *)
(* is removed when the base name does not literally end with the suffix.   *)
(***************************************************************************)
C22_LiteralSuffixStrip ==
  pc = "analyzed" =>
    \A i \in 1..Len(testFiles) :
      LET base == BaseName(Last(testFiles[i]), options.fileExtension)
          suffix == options.testFileSuffix
      IN InferredSourceName(testFiles[i], options)
           = IF EndsWith(base, suffix)
             THEN SubSeq(base, 1, Len(base) - Len(suffix))
             ELSE base

\* A source path as the claim of C23 writes it: relative to the source
\* root, behind './src/'.
DisplaySourcePath(p) ==
  << <<".">>, <<"s", "r", "c">> >> \o Relative(options.srcRoot, p)

\* The test files with several candidates none of which is resolved.
IsUnresolved(t) ==
  /\ Len(Candidates(t)) > 1
  /\ MatchingSourceByDir(Candidates(t), t, options) = <<>>

C24_ResolvedAsSingleMatch ==
  \A i \in 1..Len(testFiles) :
    LET t == testFiles[i]
        cands == Candidates(t)
        resolved == MatchingSourceByDir(cands, t, options)
    IN (Len(cands) > 1 /\ resolved # <<>>) =>
         FindingsFor(t, unfiltered) = TestFileErrors(t, resolved, options)

\* C24 witness: a test file with two candidates, one of them resolved, has
\* an InvalidFileName finding naming the resolved candidate.
C24_Witness ==
  \E i \in 1..Len(testFiles) :
    LET t == testFiles[i]
        cands == Candidates(t)
        resolved == MatchingSourceByDir(cands, t, options)
    IN /\ Len(cands) > 1
       /\ resolved # <<>>
       /\ Len(FindingsFor(t, results)) = 1
       /\ FindingsFor(t, results)[1].type = InvalidFileName
       /\ FindingsFor(t, results)[1].sourceFilePath = resolved

(***************************************************************************)
(* C25.  A source file that findMatchingSourceFiles returned as a          *)
(* candidate of an analysed test file has no MissingTest finding in the    *)
(* same run.                                                               *)
(***************************************************************************)
C25_NoMissingTestForCandidate ==
  \A i \in 1..Len(testFiles) :
    LET matching == FindMatchingSourceFiles(sourceFiles,
                                            InferredSourceName(testFiles[i], options),
                                            options.fileExtension)
    IN \A k \in 1..Len(matching) :
         \A r \in 1..Len(unfiltered) : \A j \in 1..Len(unfiltered[r].errors) :
           unfiltered[r].errors[j].type = MissingTest =>
             unfiltered[r].errors[j].message.path # matching[k]

(***************************************************************************)
(* C26.  The final filter removes a result only if a whole directory name  *)
(* (or a run of directory names) of its test path is an ignoreDirectories  *)
(* entry, or its file name is an ignoreFiles entry ignoring case.          *)
(***************************************************************************)
C26_FilterWholeDirectorySegments ==
  \A k \in 1..Len(unfiltered) :
    LET r == unfiltered[k]
        directories == DirName(r.testFilePath)
    IN r \notin Range(results) =>
         \/ \E i \in 1..Len(options.ignoreDirectories) :
              \E a \in 1..Len(directories) :
                SubSeq(directories, a, a + Len(options.ignoreDirectories[i]) - 1)
                  = options.ignoreDirectories[i]
         \/ \E i \in 1..Len(options.ignoreFiles) :
              ToLowerCase(Last(r.testFilePath)) = ToLowerCase(options.ignoreFiles[i])

(***************************************************************************)
(* C27.  --all loses no file: every file below the test root before the    *)
(* run of fixDirectoryStructure is afterwards, with its content, at its    *)
(* path or at the expected path of one of its findings.                    *)
(***************************************************************************)
C27_FixAllLosesNoFile ==
  [][(pc = "analyzed" /\ pc' = "fixed" /\ fixMode' = "all") =>
       \A f \in DOMAIN testFs :
         \E q \in DOMAIN testFs' :
           /\ testFs'[q] = testFs[f]
           /\ \/ q = f
              \/ \E k \in 1..Len(FindingsFor(f, results)) :
                   q = FindingsFor(f, results)[k].expectedTestPath]_vars

(***************************************************************************)
(* C29.  After --all, the analysis of the files it left, with the same     *)
(* options, has no InvalidDirectoryStructure finding with all three paths: *)
(* a second --all has nothing to move.                                     *)
(***************************************************************************)
C29_FixAllFixedPoint ==
  (pc = "reanalyzed" /\ fixMode = "all") =>
    /\ \A k \in 1..Len(AllErrors(results)) : ~IsDirectoryFixable(AllErrors(results)[k])
    /\ FixDirectoryErrors(AllErrors(results), testFs, <<>>).fixed = <<>>

\* C29 witness: --all has moved two files, and the second analysis still
\* has a result.
C29_Witness ==
  /\ pc = "reanalyzed"
  /\ fixMode = "all"
  /\ Len(handed) = 2
  /\ results # <<>>

(***************************************************************************)
(* C28.  From the first call of a single-file fix on, whether its calls    *)
(* succeed or one of them fails, the file being fixed is at its original   *)
(* path or at its expected path.                                           *)
(***************************************************************************)
C28_FixedFileIsNeverAstray ==
  (pc \in {"fixing", "fixed", "done"} /\ handed # <<>>) =>
    LET e == handed[1]
    IN \/ /\ e.actualTestPath \in DOMAIN testFs
          /\ testFs[e.actualTestPath] = e.actualTestPath
       \/ /\ e.expectedTestPath \in DOMAIN testFs
          /\ testFs[e.expectedTestPath] = e.actualTestPath

(***************************************************************************)
(* C30.  Each 'fix' or 'fixAll' message the results view posts starts the  *)
(* fix action exactly once, however many analyses have refreshed the view  *)
(* before.                                                                 *)
(***************************************************************************)
C30_OneFixPerMessage ==
  webviewState.posted \in {"fix", "fixAll"} => webviewState.started = 1

====
